---- MODULE Spec2Model ----
(***************************************************************************)
(* Model of the zaban-client examples: the asyncio fan-out / fan-in of     *)
(* examples/batch_translation.py and examples/async_usage.py and the       *)
(* client lifecycle of examples/basic_usage.py.                            *)
(*                                                                         *)
(* One behaviour is one run of one example program (prog) on one input.    *)
(* The event loop is cooperative: an action is the code between two        *)
(* suspension points of the example's coroutine, or one step of a task     *)
(* the loop runs while that coroutine is suspended in asyncio.gather.      *)
(***************************************************************************)
EXTENDS Integers, Sequences, FiniteSets, TLC

\* ------------------------------------------------------------------ bounds
MaxTexts == 3
MaxLangs == 2
MaxBatch == 2
MaxLines == 3
MaxElapsed == 1

\* ------------------------------------------------------- input alphabets
sample_texts == <<"Hello, world!", "Good morning", "Thank you", "How are you?", "Nice to meet you">>

lang_codes == <<"hin_Deva", "tam_Taml", "ben_Beng", "tel_Telu", "mar_Deva">>

\* readlines() yields each line with its terminator; the last may lack it.
LineSet == { <<"\n">>, <<" ", "\n">>, <<"a", "\n">>, <<" ", "b", " ", "\n">>, <<"c">> }

Texts == {sample_texts[1], sample_texts[2]}

Langs == {lang_codes[1], lang_codes[2]}

Errors == {"AuthenticationError", "ApiError"}

Programs == {"translate_dataset", "translate_file", "batch_translations",
             "compare_translations", "error_handling_async", "error_handling_example"}

BatchPrograms == {"translate_dataset", "translate_file"}

GatherPrograms == {"translate_dataset", "translate_file", "batch_translations", "compare_translations"}

AsyncPrograms == Programs \ {"error_handling_example"}

VARIABLES prog, texts, target_langs, batch_size, lines,
          pc, client, loop, i, total, processed, tasks, task_metadata, outer,
          results, translated_lines, output_file, calls, retval, exc

vars == <<prog, texts, target_langs, batch_size, lines,
          pc, client, loop, i, total, processed, tasks, task_metadata, outer,
          results, translated_lines, output_file, calls, retval, exc>>

inputs == <<prog, texts, target_langs, batch_size, lines>>

\* ------------------------------------------------------------ pure helpers
SeqsUpTo(S, n) == UNION { [1..m -> S] : m \in 0..n }

Min(a, b) == IF a < b THEN a ELSE b

\* Python slice s[lo : lo + n] with 0-based lo.
Slice(s, lo, n) == SubSeq(s, lo + 1, Min(lo + n, Len(s)))

IsSpace(c) == c \in {" ", "\n"}

RECURSIVE LStrip(_)
LStrip(s) == IF s # <<>> /\ IsSpace(Head(s)) THEN LStrip(Tail(s)) ELSE s

RECURSIVE RStrip(_)
RStrip(s) == IF s # <<>> /\ IsSpace(s[Len(s)]) THEN RStrip(SubSeq(s, 1, Len(s) - 1)) ELSE s

\* str.strip()
Strip(s) == RStrip(LStrip(s))

\* The comprehension without its "if line.strip()" filter.
StrippedUnfiltered(batch) == [n \in 1..Len(batch) |-> Strip(batch[n])]

\* the comprehension "line.strip() for line in batch if line.strip()"
RECURSIVE StrippedNonBlank(_)
StrippedNonBlank(batch) ==
  IF batch = <<>> THEN <<>>
  ELSE IF Strip(Head(batch)) # <<>>
       THEN <<Strip(Head(batch))>> \o StrippedNonBlank(Tail(batch))
       ELSE StrippedNonBlank(Tail(batch))

NoResult == [kind |-> "none", value |-> <<>>]

\* The response object of call k: its translated_text is produced by the
\* remote service for that one request.
Response(k, text, lang) == [kind |-> "ok", value |-> <<"translated", text, lang, k>>]

Failure(e) == [kind |-> "error", value |-> <<e>>]

Unresolved(k) == calls[k].state \in {"scheduled", "running"}

InFlight == { k \in DOMAIN calls : calls[k].state = "running" }


\* ------------------------------------------------------------------- Init
Idle ==
  /\ pc = "start" /\ client = "none" /\ loop = "running"
  /\ i = 0 /\ total = 0 /\ processed = 0
  /\ tasks = <<>> /\ task_metadata = <<>> /\ outer = [state |-> "none", value |-> <<>>]
  /\ results = <<>> /\ translated_lines = <<>> /\ output_file = [written |-> FALSE, content |-> <<>>]
  /\ calls = <<>> /\ retval = [set |-> FALSE, value |-> <<>>] /\ exc = "none"

Init ==
  /\ prog \in Programs
  /\ IF prog = "translate_dataset"
     THEN /\ texts \in SeqsUpTo(Texts, MaxTexts)
          /\ target_langs \in SeqsUpTo(Langs, MaxLangs)
     ELSE /\ texts = <<>>
          /\ target_langs = <<>>
  /\ IF prog = "translate_file"
     THEN lines \in SeqsUpTo(LineSet, MaxLines)
     ELSE lines = <<>>
  /\ IF prog \in BatchPrograms
     THEN batch_size \in 1..MaxBatch
     ELSE batch_size = 0
  /\ Idle


\* ------------------------------------------------------- asyncio.gather
\* gather(*coros) wraps every coroutine in a Task scheduled on the loop and
\* returns the outer future; gather() of nothing is already resolved to [].
NewCalls(items, g) ==
  [n \in 1..Len(items) |->
     [text |-> items[n][1], target_lang |-> items[n][2], group |-> g,
      state |-> "scheduled", result |-> NoResult]]

Gather(items, g) ==
  /\ calls' = calls \o NewCalls(items, g)
  /\ tasks' = [n \in 1..Len(items) |-> Len(calls) + n]
  /\ outer' = IF items = <<>>
              THEN [state |-> "result", value |-> <<>>]
              ELSE [state |-> "pending", value |-> <<>>]

\* The children's results taken in another order than the one they were
\* passed in, as a collection by completion would give.
GatherResultUnordered(cs, ts) == [n \in 1..Len(ts) |-> cs[ts[Len(ts) + 1 - n]].result]

\* The outer future's result: the children's results in the order the
\* children were passed, whatever order they finished in.
GatherResult(cs, ts) == [n \in 1..Len(ts) |-> cs[ts[n]].result]

\* Waiting for the first child only (FIRST_COMPLETED).
AnyFinished(cs, ts) == \E n \in 1..Len(ts) : cs[ts[n]].state \in {"done", "failed"}

AllFinished(cs, ts) == \A n \in 1..Len(ts) : cs[ts[n]].state \in {"done", "failed"}

\* The coroutine of the example is suspended and the loop runs its tasks.
Suspended == pc \in {"gather", "except"} /\ loop = "running"

\* First step of a task: the request is issued.  The loop's ready queue is
\* FIFO, so the tasks of one gather start in the order they were created.
StartTask(k) ==
  /\ Suspended
  /\ calls[k].state = "scheduled"
  /\ \A j \in 1..(k - 1) : calls[j].state # "scheduled"
  /\ calls' = [calls EXCEPT ![k].state = "running"]
  /\ UNCHANGED <<inputs, pc, client, loop, i, total, processed, tasks, task_metadata,
                 outer, results, translated_lines, output_file, retval, exc>>

\* The remote call of task k completes with outcome o.  The done callback of
\* gather (return_exceptions=False) sets the first exception on the outer
\* future at once and the result list when the last child has finished; the
\* other children are left running.
OuterAfter(cs, k, o) ==
  IF outer.state # "pending" \/ \A n \in 1..Len(tasks) : tasks[n] # k THEN outer
  ELSE IF o \in Errors THEN [state |-> "exception", value |-> <<o>>]
  ELSE IF AllFinished(cs, tasks) THEN [state |-> "result", value |-> GatherResult(cs, tasks)]
  ELSE outer

Outcome(k, o) ==
  IF o \in Errors THEN Failure(o) ELSE Response(k, calls[k].text, calls[k].target_lang)

CompleteTask(k, o) ==
  /\ Suspended
  /\ calls[k].state = "running"
  /\ \A j \in DOMAIN calls : calls[j].state # "scheduled"
  /\ LET cs == [calls EXCEPT ![k].state = IF o \in Errors THEN "failed" ELSE "done",
                             ![k].result = Outcome(k, o)]
     IN /\ calls' = cs
        /\ outer' = OuterAfter(cs, k, o)
  /\ UNCHANGED <<inputs, pc, client, loop, i, total, processed, tasks, task_metadata,
                 results, translated_lines, output_file, retval, exc>>

\* "await asyncio.gather(*tasks)" raises the outer future's exception.  It
\* leaves the enclosing "async with", whose __aexit__ releases the client,
\* and reaches the "except Exception" of main.
GatherRaise ==
  /\ pc = "gather"
  /\ outer.state = "exception"
  /\ \A n \in 1..Len(tasks) : calls[tasks[n]].state # "scheduled"
  /\ exc' = outer.value[1]
  /\ client' = "closed"
  /\ pc' = "except"
  /\ UNCHANGED <<inputs, loop, i, total, processed, tasks, task_metadata, outer,
                 results, translated_lines, output_file, calls, retval>>

\* ------------------------------------------------- "async with" / Zaban()
AEnter ==
  /\ pc = "start"
  /\ prog \in AsyncPrograms
  /\ client' = "open"
  /\ total' = IF prog = "translate_dataset" THEN Len(texts) * Len(target_langs)
              ELSE 0
  /\ pc' = IF prog = "error_handling_async" THEN "call" ELSE "for"
  /\ UNCHANGED <<inputs, loop, i, processed, tasks, task_metadata, outer,
                 results, translated_lines, output_file, calls, retval, exc>>

Construct ==
  /\ pc = "start"
  /\ prog = "error_handling_example"
  /\ client' = "open"
  /\ pc' = "call"
  /\ UNCHANGED <<inputs, loop, i, total, processed, tasks, task_metadata, outer,
                 results, translated_lines, output_file, calls, retval, exc>>


\* ------------------------------------------------------ translate_dataset
\* The nested loops "for text in batch_texts: for target_lang in target_langs"
\* that append one coroutine and one (text, target_lang) per iteration.
Pairs(batch_texts, langs) ==
  [n \in 1..(Len(batch_texts) * Len(langs)) |->
     <<batch_texts[((n - 1) \div Len(langs)) + 1], langs[((n - 1) % Len(langs)) + 1]>>]

\* zip(task_metadata, batch_results) turned into result tuples.
Collected(md, batch_results) ==
  [n \in 1..Min(Len(md), Len(batch_results)) |-> <<md[n][1], md[n][2], batch_results[n].value>>]

DatasetDispatch ==
  /\ prog = "translate_dataset"
  /\ pc = "for"
  /\ i < Len(texts)
  /\ LET items == Pairs(Slice(texts, i, batch_size), target_langs)
     IN /\ task_metadata' = items
        /\ Gather(items, (i \div batch_size) + 1)
  /\ pc' = "gather"
  /\ UNCHANGED <<inputs, client, loop, i, total, processed, results,
                 translated_lines, output_file, retval, exc>>

DatasetCollect ==
  /\ prog = "translate_dataset"
  /\ pc = "gather"
  /\ outer.state = "result"
  /\ LET got == Collected(task_metadata, outer.value)
     IN /\ results' = results \o got
        /\ processed' = processed + Len(got)
  /\ i' = i + batch_size
  /\ pc' = "for"
  /\ UNCHANGED <<inputs, client, loop, total, tasks, task_metadata, outer,
                 translated_lines, output_file, calls, retval, exc>>

\* elapsed_time / total
Average(elapsed, n) ==
  IF n = 0 THEN [raised |-> "ZeroDivisionError", value |-> 0]
  ELSE [raised |-> "none", value |-> elapsed \div n]

\* After the loop: the metrics are printed and the results returned; both
\* leave the "async with".
DatasetFinish ==
  /\ prog = "translate_dataset"
  /\ pc = "for"
  /\ i >= Len(texts)
  /\ \E elapsed \in 0..MaxElapsed :
       IF Average(elapsed, total).raised # "none"
       THEN /\ exc' = Average(elapsed, total).raised
            /\ pc' = "except"
            /\ UNCHANGED retval
       ELSE /\ retval' = [set |-> TRUE, value |-> results]
            /\ pc' = "returned"
            /\ UNCHANGED exc
  /\ client' = "closed"
  /\ UNCHANGED <<inputs, loop, i, total, processed, tasks, task_metadata, outer,
                 results, translated_lines, output_file, calls>>

\* --------------------------------------------------------- translate_file
FileItems(batch) ==
  LET stripped == StrippedNonBlank(batch)
  IN [n \in 1..Len(stripped) |-> <<stripped[n], lang_codes[1]>>]

OutputLines(batch_results) ==
  [n \in 1..Len(batch_results) |-> batch_results[n].value \o <<"\n">>]

FileDispatch ==
  /\ prog = "translate_file"
  /\ pc = "for"
  /\ i < Len(lines)
  /\ Gather(FileItems(Slice(lines, i, batch_size)), (i \div batch_size) + 1)
  /\ pc' = "gather"
  /\ UNCHANGED <<inputs, client, loop, i, total, processed, task_metadata, results,
                 translated_lines, output_file, retval, exc>>

FileCollect ==
  /\ prog = "translate_file"
  /\ pc = "gather"
  /\ outer.state = "result"
  /\ translated_lines' = translated_lines \o OutputLines(outer.value)
  /\ i' = i + batch_size
  /\ pc' = "for"
  /\ UNCHANGED <<inputs, client, loop, total, processed, tasks, task_metadata, outer,
                 results, output_file, calls, retval, exc>>

\* The output file is written and the caller's "async with" is left.
FileFinish ==
  /\ prog = "translate_file"
  /\ pc = "for"
  /\ i >= Len(lines)
  /\ output_file' = [written |-> TRUE, content |-> translated_lines]
  /\ retval' = [set |-> TRUE, value |-> <<>>]
  /\ client' = "closed"
  /\ pc' = "returned"
  /\ UNCHANGED <<inputs, loop, i, total, processed, tasks, task_metadata, outer,
                 results, translated_lines, calls, exc>>

\* ----------------------------- batch_translations, compare_translations
batch_texts5 == <<"Hello", "Goodbye", "Thank you", "Good morning", "How are you?">>

ExampleItems ==
  IF prog = "batch_translations"
  THEN [n \in 1..Len(batch_texts5) |-> <<batch_texts5[n], lang_codes[1]>>]
  ELSE [n \in 1..Len(lang_codes) |-> <<"Artificial intelligence is transforming the world", lang_codes[n]>>]

ExampleDispatch ==
  /\ prog \in {"batch_translations", "compare_translations"}
  /\ pc = "for"
  /\ i = 0
  /\ Gather(ExampleItems, 1)
  /\ pc' = "gather"
  /\ UNCHANGED <<inputs, client, loop, i, total, processed, task_metadata, results,
                 translated_lines, output_file, retval, exc>>

\* The results are printed and the "async with" is left.
ExampleCollect ==
  /\ prog \in {"batch_translations", "compare_translations"}
  /\ pc = "gather"
  /\ outer.state = "result"
  /\ results' = outer.value
  /\ retval' = [set |-> TRUE, value |-> <<>>]
  /\ client' = "closed"
  /\ pc' = "returned"
  /\ UNCHANGED <<inputs, loop, i, total, processed, tasks, task_metadata, outer,
                 translated_lines, output_file, calls, exc>>

\* ------------------------- error_handling_async, error_handling_example
\* One call, awaited (or made) directly by the example.
SingleCall ==
  /\ prog \in {"error_handling_async", "error_handling_example"}
  /\ pc = "call"
  /\ calls' = calls \o <<[text |-> "Hello", target_lang |-> lang_codes[1], group |-> 1,
                         state |-> "running", result |-> NoResult]>>
  /\ pc' = "await"
  /\ UNCHANGED <<inputs, client, loop, i, total, processed, tasks, task_metadata, outer,
                 results, translated_lines, output_file, retval, exc>>

\* The call returns or raises.  In error_handling_async either way leaves the
\* "async with"; error_handling_example holds a plain Zaban object that no
\* statement closes.
SingleDone(o) ==
  /\ prog \in {"error_handling_async", "error_handling_example"}
  /\ pc = "await"
  /\ calls' = [calls EXCEPT ![1].state = IF o \in Errors THEN "failed" ELSE "done",
                            ![1].result = Outcome(1, o)]
  /\ client' = IF prog = "error_handling_async" THEN "closed" ELSE client
  /\ exc' = IF o \in Errors THEN o ELSE exc
  /\ pc' = IF o \in Errors THEN "except" ELSE "returned"
  /\ retval' = IF o \in Errors THEN retval ELSE [set |-> TRUE, value |-> <<>>]
  /\ UNCHANGED <<inputs, loop, i, total, processed, tasks, task_metadata, outer,
                 results, translated_lines, output_file>>

\* ------------------------------------------------------------ end of run
\* main returns (after its except clause when one ran) and asyncio.run shuts
\* the loop down, cancelling every task that is still pending.
Cancelled(c) == IF c.state \in {"scheduled", "running"} THEN [c EXCEPT !.state = "cancelled"] ELSE c

MainExit ==
  /\ pc \in {"returned", "except"}
  /\ calls' = [k \in DOMAIN calls |-> Cancelled(calls[k])]
  /\ loop' = "closed"
  /\ pc' = "exited"
  /\ UNCHANGED <<inputs, client, i, total, processed, tasks, task_metadata, outer,
                 results, translated_lines, output_file, retval, exc>>

Next ==
  \/ AEnter
  \/ Construct
  \/ DatasetDispatch
  \/ DatasetCollect
  \/ DatasetFinish
  \/ FileDispatch
  \/ FileCollect
  \/ FileFinish
  \/ ExampleDispatch
  \/ ExampleCollect
  \/ SingleCall
  \/ \E o \in {"ok"} \cup Errors : SingleDone(o)
  \/ \E k \in DOMAIN calls : StartTask(k)
  \/ \E k \in DOMAIN calls, o \in {"ok"} \cup Errors : CompleteTask(k, o)
  \/ GatherRaise
  \/ MainExit

Spec == Init /\ [][Next]_vars


\* ============================================================ properties
Finished(k) == calls[k].state \in {"done", "failed"}

Left == pc \in {"returned", "except", "exited"}

\* The (text, target_lang) of the n-th tuple in submission order: texts outer,
\* target_langs inner.
TextOf(n) == texts[((n - 1) \div Len(target_langs)) + 1]

LangOf(n) == target_langs[((n - 1) % Len(target_langs)) + 1]

C2_FaultIsolation ==
  prog \in GatherPrograms =>
    /\ \A k \in DOMAIN calls : calls[k].state # "cancelled"
    /\ Left => \A k \in DOMAIN calls : Finished(k)

\* C3: translate_dataset never propagates a per-item failure: it ends by
\* returning one entry per submitted invocation.
C3_NeverRaises ==
  prog = "translate_dataset" =>
    /\ exc \notin Errors
    /\ (pc = "exited" /\ total > 0) => (retval.set /\ Len(retval.value) = Len(calls))

\* C4: at no point are more than batch_size remote invocations in flight.
C4_ConcurrencyCap ==
  prog \in BatchPrograms => Cardinality(InFlight) <= batch_size

\* The items no invocation has been created for yet.
Remaining ==
  IF prog = "translate_dataset"
  THEN Pairs(Slice(texts, i + batch_size, Len(texts)), target_langs)
  ELSE FileItems(Slice(lines, i + batch_size, Len(lines)))

\* C5 (as stated): admission is sliding-window; the dispatcher is never blocked
\* on the rest of a group while a slot is free and an item is waiting.
C5_SlidingWindow ==
  ~ /\ prog \in BatchPrograms
    /\ pc = "gather"
    /\ outer.state = "pending"
    /\ \E n \in 1..Len(tasks) : Finished(tasks[n])
    /\ Cardinality(InFlight) < batch_size
    /\ Remaining # <<>>

\* C5 (amended): admission is by fixed groups; an invocation of a later group
\* exists only when every invocation of every earlier group has completed
\* successfully.
C5_FixedChunks ==
  prog \in BatchPrograms =>
    \A a, b \in DOMAIN calls : calls[a].group < calls[b].group => calls[a].state = "done"

C5_Witness ==
  /\ prog \in BatchPrograms
  /\ batch_size = 2
  /\ \E a, b \in DOMAIN calls :
       /\ calls[a].group = 1 /\ calls[b].group = 1 /\ a # b
  /\ \E c \in DOMAIN calls : calls[c].group = 2 /\ calls[c].state = "running"

\* The list translate_dataset returns when every call succeeds, as a function
\* of texts and target_langs alone.
ExpectedResults ==
  [n \in 1..(Len(texts) * Len(target_langs)) |->
     <<TextOf(n), LangOf(n), <<"translated", TextOf(n), LangOf(n), n>>>>]

\* C6: the returned list does not depend on batch_size, and with batch_size 1
\* the calls are strictly sequential: at most one in flight, started in
\* submission order.
C6_LimitIndependent ==
  prog = "translate_dataset" =>
    /\ retval.set => retval.value = ExpectedResults
    /\ batch_size = 1 =>
         /\ Cardinality(InFlight) <= 1
         /\ \A j, k \in DOMAIN calls :
              (j < k /\ calls[k].state # "scheduled") => calls[j].state # "scheduled"

\* C7: the metrics never prevent the result: translate_dataset does not raise
\* from computing them, and an empty batch returns the empty list.
C7_MetricsObservational ==
  prog = "translate_dataset" =>
    /\ exc # "ZeroDivisionError"
    /\ (pc = "exited" /\ total = 0) => (retval.set /\ retval.value = <<>>)

\* C8: no example finishes with a client it acquired still open.
C8_ClientReleased ==
  pc = "exited" => client = "closed"

\* C9: the client is never released while one of its invocations is unresolved.
C9_NoReleaseWhileUnresolved ==
  (prog \in GatherPrograms /\ client = "closed") =>
    \A k \in DOMAIN calls : ~Unresolved(k)

\* The positions of the lines that contain a character that is not whitespace.
NonBlankIdx == { j \in 1..Len(lines) : \E m \in 1..Len(lines[j]) : ~IsSpace(lines[j][m]) }

\* The position of the n-th such line.
NthNonBlank(n) == CHOOSE j \in NonBlankIdx : Cardinality({ m \in NonBlankIdx : m <= j }) = n

\* C10: translate_file issues one call per non-blank line, in line order, and
\* nothing else; the file it writes has one line per call, in that order.
C10_FileLines ==
  prog = "translate_file" =>
    /\ Len(calls) <= Cardinality(NonBlankIdx)
    /\ \A n \in DOMAIN calls : calls[n].text = Strip(lines[NthNonBlank(n)])
    /\ output_file.written =>
         /\ Len(calls) = Cardinality(NonBlankIdx)
         /\ Len(output_file.content) = Len(calls)
         /\ \A n \in DOMAIN calls :
              /\ calls[n].state = "done"
              /\ output_file.content[n] = calls[n].result.value \o <<"\n">>

C10_Witness ==
  /\ prog = "translate_file"
  /\ output_file.written
  /\ Len(lines) = 3
  /\ batch_size = 2
  /\ Cardinality(NonBlankIdx) = 2
  /\ Strip(lines[1]) = <<>>
  /\ Len(output_file.content) = 2

====
